---- MODULE Spec2Model ----
(***************************************************************************)
(* siplus-cli: the argument parser (parse_args), the output sink           *)
(* (stream_wrapper), the crash reporter (signal_handler) and the staged    *)
(* pipeline of main(), from src/src/main.cpp.                              *)
(*                                                                         *)
(* Strings are sequences of one-character strings, so that parse_val's     *)
(* find('=') / substr can be computed.  The template engine (SIPlus) is an *)
(* external library: the outcome of compile and render is chosen by the    *)
(* environment.                                                            *)
(***************************************************************************)
EXTENDS Integers, Sequences, FiniteSets, TLC

VARIABLES
    argv,               \* argv[1..argc-1]; argv[0] (the program name) is not stored
    file,               \* the file at the -o path: NoPath, NoFile, or its content
    file_before,        \* the same file as it was when -o was processed
    pc,                 \* position in main(): start, parse, compile, bind, render, write, done
    i,                  \* parse_args' loop index
    input_specified,    \* parse_args' locals
    output_specified,
    default_specified,
    args,               \* struct Args: input, out, default_value, args
    ofs,                \* the heap std::ofstream of -o: none, open, failed (to open)
    opened,             \* number of `new std::ofstream`
    released,           \* number of `delete ptr` (deleter calls)
    stdout,             \* what std::cout received, in order
    stderr,             \* what std::cerr received, in order
    exit_status,        \* Running, or the process' exit status
    stages,             \* the stages begun so far, in order
    parse_result,       \* none, ok, failed, help
    compile_result,     \* none, ok, failed
    render_result,      \* none, ok, failed
    globals,            \* opts.globals
    constructor,        \* the compiled template
    ctx,                \* the context built for render
    text,               \* the rendered text
    written,            \* number of writes of rendered text to *args.out
    handlers,           \* TRUE once std::signal installed signal_handler
    caught              \* the signal signal_handler ran for, or NoSignal

vars == <<argv, file, file_before, pc, i, input_specified, output_specified, default_specified,
          args, ofs, opened, released, stdout, stderr, exit_status, stages,
          parse_result, compile_result, render_result, globals, constructor, ctx,
          text, written, handlers, caught>>

\* ------------------------------------------------------------------ bounds

\* An argument vector is the concatenation of at most MaxWords words.
MaxWords == 4

\* ------------------------------------------------------------------ strings

OptH       == <<"-", "h">>
OptHelp    == <<"-", "-", "h", "e", "l", "p">>
OptI       == <<"-", "i">>
OptInput   == <<"-", "-", "i", "n", "p", "u", "t">>
OptV       == <<"-", "v">>
OptVal     == <<"-", "-", "v", "a", "l">>
OptD       == <<"-", "d">>
OptDefault == <<"-", "-", "d", "e", "f", "a", "u", "l", "t">>
OptO       == <<"-", "o">>
OptOutput  == <<"-", "-", "o", "u", "t", "p", "u", "t">>

Tmpl  == <<"t">>                      \* a bare token: template text, value or path
ValA1 == <<"a", "=", "1">>
ValA2 == <<"a", "=", "b", "=", "2">>  \* name a, value b=2
ValB1 == <<"b", "=", "1">>

\* The words argument vectors are built from: every flag alone, flags with
\* their argument, and bare tokens.
Words ==
    { <<OptH>>, <<OptHelp>>, <<Tmpl>>,
      <<OptI>>,
      <<OptV, ValA1>>, <<OptVal, ValA2>>, <<OptV, ValB1>>, <<OptVal>>,
      <<OptD, Tmpl>>, <<OptDefault>>,
      <<OptOutput>> }

RECURSIVE Flatten(_)
Flatten(ws) == IF ws = <<>> THEN <<>> ELSE Head(ws) \o Flatten(Tail(ws))

ArgVectors ==
    { Flatten(ws) : ws \in UNION { [1..n -> Words] : n \in 0..MaxWords } }

\* What read_file can return: the content of the file, or the empty string
\* when the file cannot be read.
FileTexts == { <<>>, <<"f">> }

\* What construct_with can return.
RenderTexts == { <<"r">> }

\* The content of a file that exists before the run.
OldText == <<"o", "l", "d">>

\* No -o was processed, so no path is named whose file could be tracked; a
\* value that is no file content (contents are sequences of characters).
NoPath   == <<"NoPath">>
\* The -o path names no existing file; likewise no file content.
NoFile   == <<"NoFile">>
Running  == -1
NoSignal == 0
SIGABRT  == 6
SIGSEGV  == 11
Signals  == { SIGABRT, SIGSEGV }

\* ------------------------------------------------------------------ helpers

argc == Len(argv) + 1

\* A default-constructed UnknownDataTypeContainer.
EmptyData == [tag |-> "empty", raw |-> <<>>]

\* SIPlus::text::make_data: wraps the raw string in a typed container.
make_data(s) == [tag |-> "string", raw |-> s]

\* help(): the usage text on std::cout.
help == [kind |-> "usage", body |-> <<>>]

\* std::string::find('='): the index (from 0) of the first '=', or npos.
npos == -1
find_eq(val) ==
    IF \E k \in 1..Len(val) : val[k] = "="
    THEN (CHOOSE k \in 1..Len(val) :
            /\ val[k] = "="
            /\ \A j \in 1..(k - 1) : val[j] # "=") - 1
    ELSE npos

\* parse_val, when the '=' is found: {substr(0, idx), substr(idx + 1)}.
parse_val_last(val) ==
    LET idx == (CHOOSE k \in 1..Len(val) :
                  /\ val[k] = "="
                  /\ \A j \in (k + 1)..Len(val) : val[j] # "=") - 1
    IN  [name |-> SubSeq(val, 1, idx), value |-> SubSeq(val, idx + 2, Len(val))]

parse_val_keep_eq(val) ==
    LET idx == find_eq(val)
    IN  [name |-> SubSeq(val, 1, idx), value |-> SubSeq(val, idx + 1, Len(val))]

parse_val(val) ==
    LET idx == find_eq(val)
    IN  [name |-> SubSeq(val, 1, idx), value |-> SubSeq(val, idx + 2, Len(val))]

\* args.args[name] = v
MapPut(m, name, v) ==
    [n \in DOMAIN m \cup {name} |-> IF n = name THEN v ELSE m[n]]

EmptyMap == [n \in {} |-> EmptyData]

\* ~Args: ~unique_ptr<stream_wrapper> runs the deleter when there is one.
AfterDestroy(out, n) == IF out = "owned" THEN n + 1 ELSE n

\* return from main: the local Args is destroyed.
ReturnFromMainWith(out, status) ==
    /\ exit_status' = status
    /\ pc' = "done"
    /\ released' = AfterDestroy(out, released)
    /\ UNCHANGED ofs

ReturnFromMain(status) == ReturnFromMainWith(args.out, status)

\* std::exit: no stack unwinding, the local Args of main is not destroyed.
StdExit(status) ==
    /\ exit_status' = status
    /\ pc' = "done"
    /\ UNCHANGED <<released, ofs>>

\* what(): the fixed text of a message and the string spliced into it.
Msg(m, s) == [msg |-> m, arg |-> s]

\* A std::runtime_error thrown in parse_args, caught in main: the message on
\* std::cerr, return 2.
ThrowWith_noreturn(out, what) ==
    /\ stderr' = Append(stderr, [prefix |-> "error: ", what |-> what])
    /\ parse_result' = "failed"
    /\ pc' = "compile"
    /\ UNCHANGED <<exit_status, released, ofs>>

ThrowWith(out, what) ==
    /\ stderr' = Append(stderr, [prefix |-> "error: ", what |-> what])
    /\ parse_result' = "failed"
    /\ ReturnFromMainWith(out, 2)

Throw(what) == ThrowWith(args.out, what)

engine == <<compile_result, render_result, globals, constructor, ctx, text, written>>
locals == <<i, input_specified, output_specified, default_specified>>

\* ------------------------------------------------------------------ Init

Init ==
    /\ argv \in ArgVectors
    /\ file = NoPath
    /\ file_before = NoPath
    /\ pc = "start"
    /\ i = 1
    /\ input_specified = FALSE
    /\ output_specified = FALSE
    /\ default_specified = FALSE
    /\ args = [input |-> <<>>, out |-> "null", default_value |-> EmptyData,
               args |-> EmptyMap]
    /\ ofs = "none"
    /\ opened = 0
    /\ released = 0
    /\ stdout = <<>>
    /\ stderr = <<>>
    /\ exit_status = Running
    /\ stages = <<>>
    /\ parse_result = "none"
    /\ compile_result = "none"
    /\ render_result = "none"
    /\ globals = <<>>
    /\ constructor = <<>>
    /\ ctx = <<>>
    /\ text = <<>>
    /\ written = 0
    /\ handlers = FALSE
    /\ caught = NoSignal

\* ------------------------------------------------------------------ main: start

\* std::signal(SIGSEGV, ...), std::signal(SIGABRT, ...), Args args, call of parse_args
MainStart ==
    /\ pc = "start"
    /\ handlers' = TRUE
    /\ pc' = "parse"
    /\ stages' = Append(stages, "parse")
    /\ UNCHANGED <<argv, file, file_before, locals, args, ofs, opened, released, stdout, stderr,
                   exit_status, parse_result, engine, caught>>

\* ------------------------------------------------------------------ parse_args

IsHelp(val)    == val = OptH \/ val = OptHelp
IsInput(val)   == val = OptI \/ val = OptInput
IsVal(val)     == val = OptV \/ val = OptVal
IsDefault(val) == val = OptD \/ val = OptDefault
IsOutput(val)  == val = OptO \/ val = OptOutput

InLoop == pc = "parse" /\ i < argc

\* -h / --help: help(); std::exit(0)
ParseHelp_noexit ==
    /\ InLoop
    /\ IsHelp(argv[i])
    /\ stdout' = Append(stdout, help)
    /\ i' = i + 1
    /\ UNCHANGED <<argv, file, file_before, pc, input_specified, output_specified,
                   default_specified, args, ofs, opened, released, stderr,
                   exit_status, stages, parse_result, engine, handlers, caught>>

ParseHelp ==
    /\ InLoop
    /\ IsHelp(argv[i])
    /\ stdout' = Append(stdout, help)
    /\ parse_result' = "help"
    /\ StdExit(0)
    /\ UNCHANGED <<argv, file, file_before, locals, args, opened, stderr, stages, engine,
                   handlers, caught>>

\* -i / --input FILE
ParseInput_replace ==
    /\ InLoop
    /\ ~IsHelp(argv[i])
    /\ IsInput(argv[i])
    /\ IF ~(i + 1 < argc)
       THEN /\ Throw(Msg("expected argument for -i", <<>>))
            /\ UNCHANGED <<locals, args>>
       ELSE /\ input_specified' = TRUE
            /\ \E content \in FileTexts : args' = [args EXCEPT !.input = content]
            /\ i' = i + 2
            /\ UNCHANGED <<pc, output_specified, default_specified, ofs, released,
                           stderr, exit_status, parse_result>>
    /\ UNCHANGED <<argv, file, file_before, opened, stdout, stages, engine, handlers, caught>>

ParseInput ==
    /\ InLoop
    /\ ~IsHelp(argv[i])
    /\ IsInput(argv[i])
    /\ IF input_specified
       THEN /\ Throw(Msg("input was already specified, -i was unexpected", <<>>))
            /\ UNCHANGED <<locals, args>>
       ELSE IF ~(i + 1 < argc)
       THEN /\ Throw(Msg("expected argument for -i", <<>>))
            /\ UNCHANGED <<locals, args>>
       ELSE /\ input_specified' = TRUE
            /\ \E content \in FileTexts : args' = [args EXCEPT !.input = content]
            /\ i' = i + 2
            /\ UNCHANGED <<pc, output_specified, default_specified, ofs, released,
                           stderr, exit_status, parse_result>>
    /\ UNCHANGED <<argv, file, file_before, opened, stdout, stages, engine, handlers, caught>>

\* -v / --val NAME=VALUE
ParseValue_overwrite ==
    /\ InLoop
    /\ ~IsHelp(argv[i]) /\ ~IsInput(argv[i])
    /\ IsVal(argv[i])
    /\ IF ~(i + 1 < argc)
       THEN /\ Throw(Msg("expected argument for -v", <<>>))
            /\ UNCHANGED <<locals, args>>
       ELSE IF find_eq(argv[i + 1]) = npos
       THEN /\ Throw(Msg("Could not find value in ", argv[i + 1]))
            /\ UNCHANGED <<locals, args>>
       ELSE LET nv == parse_val(argv[i + 1])
            IN  /\ args' = [args EXCEPT
                              !.args = MapPut(args.args, nv.name, make_data(nv.value))]
                /\ i' = i + 2
                /\ UNCHANGED <<pc, input_specified, output_specified,
                               default_specified, ofs, released, stderr,
                               exit_status, parse_result>>
    /\ UNCHANGED <<argv, file, file_before, opened, stdout, stages, engine, handlers, caught>>

ParseValue ==
    /\ InLoop
    /\ ~IsHelp(argv[i]) /\ ~IsInput(argv[i])
    /\ IsVal(argv[i])
    /\ IF ~(i + 1 < argc)
       THEN /\ Throw(Msg("expected argument for -v", <<>>))
            /\ UNCHANGED <<locals, args>>
       ELSE IF find_eq(argv[i + 1]) = npos
       THEN /\ Throw(Msg("Could not find value in ", argv[i + 1]))
            /\ UNCHANGED <<locals, args>>
       ELSE LET nv == parse_val(argv[i + 1])
            IN  IF nv.name \in DOMAIN args.args
                THEN /\ Throw(Msg("value ... was already specified", nv.name))
                     /\ UNCHANGED <<locals, args>>
                ELSE /\ args' = [args EXCEPT
                                   !.args = MapPut(args.args, nv.name,
                                                   make_data(nv.value))]
                     /\ i' = i + 2
                     /\ UNCHANGED <<pc, input_specified, output_specified,
                                    default_specified, ofs, released, stderr,
                                    exit_status, parse_result>>
    /\ UNCHANGED <<argv, file, file_before, opened, stdout, stages, engine, handlers, caught>>

\* -d / --default VALUE
ParseDefault_noskip ==
    /\ InLoop
    /\ ~IsHelp(argv[i]) /\ ~IsInput(argv[i]) /\ ~IsVal(argv[i])
    /\ IsDefault(argv[i])
    /\ IF default_specified
       THEN /\ Throw(Msg("default value already specified", <<>>))
            /\ UNCHANGED <<locals, args>>
       ELSE IF ~(i + 1 < argc)
       THEN /\ Throw(Msg("expected argument for -d", <<>>))
            /\ UNCHANGED <<locals, args>>
       ELSE /\ default_specified' = TRUE
            /\ args' = [args EXCEPT !.default_value = make_data(argv[i + 1])]
            /\ i' = i + 1
            /\ UNCHANGED <<pc, input_specified, output_specified, ofs, released,
                           stderr, exit_status, parse_result>>
    /\ UNCHANGED <<argv, file, file_before, opened, stdout, stages, engine, handlers, caught>>

ParseDefault_nocheck ==
    /\ InLoop
    /\ ~IsHelp(argv[i]) /\ ~IsInput(argv[i]) /\ ~IsVal(argv[i])
    /\ IsDefault(argv[i])
    /\ IF default_specified
       THEN /\ Throw(Msg("default value already specified", <<>>))
            /\ UNCHANGED <<locals, args>>
       ELSE /\ default_specified' = TRUE
            /\ args' = [args EXCEPT !.default_value =
                           IF i + 1 < argc THEN make_data(argv[i + 1])
                                           ELSE make_data(<<>>)]
            /\ i' = i + 2
            /\ UNCHANGED <<pc, input_specified, output_specified, ofs, released,
                           stderr, exit_status, parse_result>>
    /\ UNCHANGED <<argv, file, file_before, opened, stdout, stages, engine, handlers, caught>>

ParseDefault_replace ==
    /\ InLoop
    /\ ~IsHelp(argv[i]) /\ ~IsInput(argv[i]) /\ ~IsVal(argv[i])
    /\ IsDefault(argv[i])
    /\ IF ~(i + 1 < argc)
       THEN /\ Throw(Msg("expected argument for -d", <<>>))
            /\ UNCHANGED <<locals, args>>
       ELSE /\ default_specified' = TRUE
            /\ args' = [args EXCEPT !.default_value = make_data(argv[i + 1])]
            /\ i' = i + 2
            /\ UNCHANGED <<pc, input_specified, output_specified, ofs, released,
                           stderr, exit_status, parse_result>>
    /\ UNCHANGED <<argv, file, file_before, opened, stdout, stages, engine, handlers, caught>>

ParseDefault ==
    /\ InLoop
    /\ ~IsHelp(argv[i]) /\ ~IsInput(argv[i]) /\ ~IsVal(argv[i])
    /\ IsDefault(argv[i])
    /\ IF default_specified
       THEN /\ Throw(Msg("default value already specified", <<>>))
            /\ UNCHANGED <<locals, args>>
       ELSE IF ~(i + 1 < argc)
       THEN /\ Throw(Msg("expected argument for -d", <<>>))
            /\ UNCHANGED <<locals, args>>
       ELSE /\ default_specified' = TRUE
            /\ args' = [args EXCEPT !.default_value = make_data(argv[i + 1])]
            /\ i' = i + 2
            /\ UNCHANGED <<pc, input_specified, output_specified, ofs, released,
                           stderr, exit_status, parse_result>>
    /\ UNCHANGED <<argv, file, file_before, opened, stdout, stages, engine, handlers, caught>>

\* -o / --output FILE: new std::ofstream{path} never throws; when the path
\* cannot be opened the stream is left in a failed state.
ParseOutput ==
    /\ InLoop
    /\ ~IsHelp(argv[i]) /\ ~IsInput(argv[i]) /\ ~IsVal(argv[i]) /\ ~IsDefault(argv[i])
    /\ IsOutput(argv[i])
    /\ IF output_specified
       THEN /\ Throw(Msg("output already specified", <<>>))
            /\ UNCHANGED <<locals, args, opened, file, file_before>>
       ELSE IF ~(i + 1 < argc)
       THEN /\ Throw(Msg("expected argument for -o", <<>>))
            /\ UNCHANGED <<locals, args, opened, file, file_before>>
       ELSE /\ output_specified' = TRUE
            /\ opened' = opened + 1
            /\ \E before \in { NoFile, OldText }, writable \in BOOLEAN :
                 /\ file_before' = before
                 /\ IF writable
                    THEN ofs' = "open" /\ file' = <<>>
                    ELSE ofs' = "failed" /\ file' = before
            /\ args' = [args EXCEPT !.out = "owned"]
            /\ i' = i + 2
            /\ UNCHANGED <<pc, input_specified, default_specified, released,
                           stderr, exit_status, parse_result>>
    /\ UNCHANGED <<argv, stdout, stages, engine, handlers, caught>>

IsFlag(val) ==
    IsHelp(val) \/ IsInput(val) \/ IsVal(val) \/ IsDefault(val) \/ IsOutput(val)

\* a bare token while no input is set: the inline template
ParsePositional ==
    /\ InLoop
    /\ ~IsFlag(argv[i])
    /\ ~input_specified
    /\ input_specified' = TRUE
    /\ args' = [args EXCEPT !.input = argv[i]]
    /\ i' = i + 1
    /\ UNCHANGED <<argv, file, file_before, pc, output_specified, default_specified, ofs, opened,
                   released, stdout, stderr, exit_status, stages, parse_result,
                   engine, handlers, caught>>

\* any other token
ParseExtra ==
    /\ InLoop
    /\ ~IsFlag(argv[i])
    /\ input_specified
    /\ Throw(Msg("Unknown extra parameter ", argv[i]))
    /\ UNCHANGED <<argv, file, file_before, locals, args, opened, stdout, stages, engine,
                   handlers, caught>>

\* after the loop: the default sink and the required-field checks
ParseFinish_defaultfirst ==
    /\ pc = "parse"
    /\ ~(i < argc)
    /\ LET out == IF ~output_specified THEN "shared" ELSE args.out
       IN  /\ args' = [args EXCEPT !.out = out]
           /\ IF ~default_specified
              THEN ThrowWith(out, Msg("No default value specified", <<>>))
              ELSE IF ~input_specified
              THEN ThrowWith(out, Msg("No input specified (-h for help)", <<>>))
              ELSE /\ parse_result' = "ok"
                   /\ pc' = "compile"
                   /\ UNCHANGED <<stderr, exit_status, released, ofs>>
    /\ UNCHANGED <<argv, file, file_before, locals, opened, stdout, stages, engine, handlers,
                   caught>>

ParseFinish_alwaysShared ==
    /\ pc = "parse"
    /\ ~(i < argc)
    /\ LET out == "shared"
       IN  /\ args' = [args EXCEPT !.out = out]
           /\ IF ~input_specified
              THEN ThrowWith(out, Msg("No input specified (-h for help)", <<>>))
              ELSE IF ~default_specified
              THEN ThrowWith(out, Msg("No default value specified", <<>>))
              ELSE /\ parse_result' = "ok"
                   /\ pc' = "compile"
                   /\ UNCHANGED <<stderr, exit_status, released, ofs>>
    /\ UNCHANGED <<argv, file, file_before, locals, opened, stdout, stages, engine, handlers,
                   caught>>

ParseFinish_nodefault ==
    /\ pc = "parse"
    /\ ~(i < argc)
    /\ LET out == IF ~output_specified THEN "shared" ELSE args.out
       IN  /\ args' = [args EXCEPT !.out = out]
           /\ IF ~input_specified
              THEN ThrowWith(out, Msg("No input specified (-h for help)", <<>>))
              ELSE /\ parse_result' = "ok"
                   /\ pc' = "compile"
                   /\ UNCHANGED <<stderr, exit_status, released, ofs>>
    /\ UNCHANGED <<argv, file, file_before, locals, opened, stdout, stages, engine,
                   handlers, caught>>

ParseFinish ==
    /\ pc = "parse"
    /\ ~(i < argc)
    /\ LET out == IF ~output_specified THEN "shared" ELSE args.out
       IN  /\ args' = [args EXCEPT !.out = out]
           /\ IF ~input_specified
              THEN ThrowWith(out, Msg("No input specified (-h for help)", <<>>))
              ELSE IF ~default_specified
              THEN ThrowWith(out, Msg("No default value specified", <<>>))
              ELSE /\ parse_result' = "ok"
                   /\ pc' = "compile"
                   /\ UNCHANGED <<stderr, exit_status, released, ofs>>
    /\ UNCHANGED <<argv, file, file_before, locals, opened, stdout, stages, engine, handlers,
                   caught>>

\* ------------------------------------------------------------------ main: pipeline

\* The orders in which iterating the unordered_map can visit its keys.
Orders(S) ==
    { o \in [1..Cardinality(S) -> S] : \A n \in S : \E k \in DOMAIN o : o[k] = n }

\* opts.globals.push_back(k) for every key; parser.get_interpolation(args.input, opts)
Compile ==
    /\ pc = "compile"
    /\ stages' = Append(stages, "compile")
    /\ \E order \in Orders(DOMAIN args.args), ok \in BOOLEAN :
         /\ globals' = order
         /\ IF ok
            THEN /\ compile_result' = "ok"
                 /\ constructor' = [input |-> args.input, globals |-> order]
                 /\ pc' = "bind"
                 /\ UNCHANGED <<stderr, exit_status, released, ofs>>
            ELSE /\ compile_result' = "failed"
                 /\ stderr' = Append(stderr, [prefix |-> "parse error: ",
                                              what |-> Msg("e.what()", <<>>)])
                 /\ ReturnFromMain(1)
                 /\ UNCHANGED constructor
    /\ UNCHANGED <<argv, file, file_before, locals, args, opened, stdout, parse_result,
                   render_result, ctx, text, written, handlers, caught>>

\* parser.context().builder().use_default(args.default_value), .with(k, v) for
\* every entry, .build()
Bind_defaultonly ==
    /\ pc = "bind"
    /\ stages' = Append(stages, "bind")
    /\ ctx' = [default |-> args.default_value, values |-> EmptyMap]
    /\ pc' = "render"
    /\ UNCHANGED <<argv, file, file_before, locals, args, ofs, opened, released, stdout, stderr,
                   exit_status, parse_result, compile_result, render_result, globals,
                   constructor, text, written, handlers, caught>>

Bind ==
    /\ pc = "bind"
    /\ stages' = Append(stages, "bind")
    /\ ctx' = [default |-> args.default_value, values |-> args.args]
    /\ pc' = "render"
    /\ UNCHANGED <<argv, file, file_before, locals, args, ofs, opened, released, stdout, stderr,
                   exit_status, parse_result, compile_result, render_result, globals,
                   constructor, text, written, handlers, caught>>

\* constructor.construct_with(ctx)
Render ==
    /\ pc = "render"
    /\ stages' = Append(stages, "render")
    /\ \E ok \in BOOLEAN :
         IF ok
         THEN /\ render_result' = "ok"
              /\ \E t \in RenderTexts : text' = t
              /\ pc' = "write"
              /\ UNCHANGED <<stderr, exit_status, released, ofs>>
         ELSE /\ render_result' = "failed"
              /\ stderr' = Append(stderr, [prefix |-> "execution error: ",
                                           what |-> Msg("e.what()", <<>>)])
              /\ ReturnFromMain(1)
              /\ UNCHANGED text
    /\ UNCHANGED <<argv, file, file_before, locals, args, opened, stdout, parse_result,
                   compile_result, globals, constructor, ctx, written, handlers,
                   caught>>

\* *args.out << text << std::flush; return 0
Write ==
    /\ pc = "write"
    /\ stages' = Append(stages, "write")
    /\ written' = written + 1
    /\ IF args.out = "shared"
       THEN /\ stdout' = Append(stdout, [kind |-> "text", body |-> text])
            /\ UNCHANGED file
       ELSE /\ file' = IF ofs = "open" THEN file \o text ELSE file
            /\ UNCHANGED stdout
    /\ ReturnFromMain(0)
    /\ UNCHANGED <<argv, file_before, locals, args, opened, stderr, parse_result, compile_result,
                   render_result, globals, constructor, ctx, text, handlers, caught>>

\* ------------------------------------------------------------------ signal_handler

\* SIGSEGV or SIGABRT delivered while main runs: the message on std::cout, the
\* trace, std::exit(1)
signal_handler ==
    /\ handlers
    /\ pc # "done"
    /\ \E signal \in Signals :
         /\ caught' = signal
         /\ stdout' = Append(stdout, [kind |-> "signal", body |-> <<signal>>])
    /\ StdExit(1)
    /\ UNCHANGED <<argv, file, file_before, locals, args, opened, stderr, stages, parse_result,
                   engine, handlers>>

\* ------------------------------------------------------------------ specification

Next ==
    \/ MainStart
    \/ ParseHelp
    \/ ParseInput
    \/ ParseValue
    \/ ParseDefault
    \/ ParseOutput
    \/ ParsePositional
    \/ ParseExtra
    \/ ParseFinish
    \/ Compile
    \/ Bind
    \/ Render
    \/ Write
    \/ signal_handler

Spec == Init /\ [][Next]_vars

\* ------------------------------------------------------------------ the argument
\* vector as the command line describes it

TakesValue(val) == IsInput(val) \/ IsVal(val) \/ IsDefault(val) \/ IsOutput(val)

\* The items of v from position k on: a value-taking flag with the token after
\* it, or a single token (flag |-> <<>>); at is the position of its first token.
RECURSIVE Items(_, _)
Items(v, k) ==
    IF k > Len(v) THEN <<>>
    ELSE IF TakesValue(v[k]) /\ k < Len(v)
    THEN <<[flag |-> v[k], value |-> v[k + 1], at |-> k]>> \o Items(v, k + 2)
    ELSE <<[flag |-> <<>>, value |-> v[k], at |-> k]>> \o Items(v, k + 1)

ItemsOf(v) == Items(v, 1)
Where(v, P(_)) == LET its == ItemsOf(v) IN { k \in 1..Len(its) : P(its[k]) }

IsBare(it)      == it.flag = <<>> /\ ~IsFlag(it.value)
IsLoneFlag(it)  == it.flag = <<>> /\ IsFlag(it.value)
IsSource(it)    == IsBare(it) \/ IsInput(it.flag)
IsDefaultIt(it) == IsDefault(it.flag)
IsOutputIt(it)  == IsOutput(it.flag)
IsValIt(it)     == IsVal(it.flag)

HasEq(s)      == \E k \in 1..Len(s) : s[k] = "="
FirstEq(s)    == CHOOSE k \in 1..Len(s) : s[k] = "=" /\ \A j \in 1..(k - 1) : s[j] # "="
NameOf(s)     == SubSeq(s, 1, FirstEq(s) - 1)
RawValueOf(s) == SubSeq(s, FirstEq(s) + 1, Len(s))

\* The vectors of C1: one template source, one -d, at most one -o, any number
\* of -v NAME=VALUE with distinct names, nothing else.
ValidItems(its) ==
    LET vals == { k \in 1..Len(its) : IsValIt(its[k]) }
    IN  /\ \A k \in 1..Len(its) : ~IsLoneFlag(its[k])
        /\ Cardinality({ k \in 1..Len(its) : IsSource(its[k]) }) = 1
        /\ Cardinality({ k \in 1..Len(its) : IsDefaultIt(its[k]) }) = 1
        /\ Cardinality({ k \in 1..Len(its) : IsOutputIt(its[k]) }) <= 1
        /\ \A k \in vals : HasEq(its[k].value)
        /\ \A k, l \in vals : k # l => NameOf(its[k].value) # NameOf(its[l].value)

ValidVector(v) == ValidItems(ItemsOf(v))

\* The names given by the -v items its, and the text after the first = of the
\* item that gives the name n.
NamesIn(its) ==
    { NameOf(its[k].value) : k \in { l \in 1..Len(its) : IsValIt(its[l]) } }

ValueIn(its, n) ==
    LET k == CHOOSE k \in 1..Len(its) : IsValIt(its[k]) /\ NameOf(its[k].value) = n
    IN  RawValueOf(its[k].value)

SuppliedNames(v) == NamesIn(ItemsOf(v))

Range(f) == { f[k] : k \in DOMAIN f }
Finished == pc = "done" /\ caught = NoSignal
LastError == stderr[Len(stderr)]

\* ------------------------------------------------------------------ claims

\* C1: for every argument vector with exactly one template source, exactly one
\* -d, at most one -o and any number of -v NAME=VALUE with pairwise distinct
\* names, in any order, parse_args does not fail (so a run that fails in
\* parse_args or prints help, or ends without a successful parse, has no such
\* vector), and after the successful parse args.args has exactly the supplied
\* names as keys, each mapped to make_data of its own raw VALUE.
C1_ValidVectorParses ==
    /\ parse_result \in {"failed", "help"} => ~ValidVector(argv)
    /\ (Finished /\ parse_result # "ok") => ~ValidVector(argv)
    /\ parse_result = "ok" =>
          LET its == ItemsOf(argv)
          IN  ValidItems(its) =>
                 /\ DOMAIN args.args = NamesIn(its)
                 /\ \A n \in NamesIn(its) :
                       args.args[n] = make_data(ValueIn(its, n))

C1_Witness ==
    /\ ValidVector(argv)
    /\ parse_result = "ok"
    /\ Cardinality(DOMAIN args.args) = 2
    /\ \E n \in DOMAIN args.args : HasEq(args.args[n].raw)

\* C2 (as claimed): whenever -h or --help occurs anywhere in the argument
\* vector, the finished run has printed the usage text, exited with status 0
\* and reported no error.
C2_HelpAnywhere ==
    (Finished /\ \E k \in 1..Len(argv) : IsHelp(argv[k])) =>
        /\ exit_status = 0
        /\ help \in Range(stdout)
        /\ stderr = <<>>

\* C2 (amended): when the left-to-right scan reaches -h or --help in flag
\* position (no earlier token raised an error, and it is not the argument of
\* the flag before it), processing it prints the usage text and ends the run
\* with status 0, whatever tokens follow and whichever required flags are
\* absent; no error has been or is reported.
C2_HelpReachedExitsZero ==
    [][ (InLoop /\ IsHelp(argv[i]) /\ caught' = NoSignal) =>
            /\ pc' = "done"
            /\ exit_status' = 0
            /\ stdout' = Append(stdout, help)
            /\ stderr = <<>> /\ stderr' = <<>> ]_vars

C2_Witness ==
    /\ parse_result = "help"
    /\ exit_status = 0
    /\ i < Len(argv)
    /\ ~input_specified /\ ~default_specified

\* C3: in every finished run in which -o created the file stream, the stream
\* has been released exactly once, on every terminating path (the help early
\* exit included).
C3_OwnedReleasedOnce ==
    (Finished /\ opened = 1) => released = 1

\* C4: when the -o path cannot be opened, the run fails during argument
\* parsing: compile and render are never invoked.
C4_UnwritableFailsParse ==
    ofs = "failed" =>
        /\ parse_result # "ok"
        /\ "compile" \notin Range(stages) /\ "render" \notin Range(stages)

\* C5: a run that ends with a non-zero exit status has written nothing to the
\* sink, and its error messages are on standard error, none on standard output.
C5_NothingOnFailure ==
    (pc = "done" /\ exit_status # 0) =>
        /\ written = 0
        /\ \A k \in 1..Len(stdout) : stdout[k].kind \notin {"signal", "error"}

\* C6: the exit status is 2 exactly when argument parsing failed, 1 exactly
\* when compile failed after a successful parse or render failed after a
\* successful compile, 0 exactly when all stages succeeded or help was
\* requested; the message carries the stage's prefix and no run reports
\* messages of two stages.
C6_ExitStatusByStage ==
    pc = "done" =>
        /\ exit_status = 2 <=> parse_result = "failed"
        /\ exit_status = 1 <=>
              \/ parse_result = "ok" /\ compile_result = "failed"
              \/ compile_result = "ok" /\ render_result = "failed"
        /\ exit_status = 0 <=>
              \/ parse_result = "help"
              \/ parse_result = "ok" /\ compile_result = "ok" /\ render_result = "ok"
        /\ Len(stderr) <= 1
        /\ parse_result = "failed" => LastError.prefix = "error: "
        /\ compile_result = "failed" => LastError.prefix = "parse error: "
        /\ render_result = "failed" => LastError.prefix = "execution error: "

\* C7: the stages begin in the order parse, compile, bind, render, write, each
\* at most once, and a stage begins only after every earlier stage succeeded:
\* no compile after a usage error, no render after a compile error.
StageOrder == <<"parse", "compile", "bind", "render", "write">>

C7_StagesInOrder ==
    /\ Len(stages) <= Len(StageOrder)
    /\ stages = SubSeq(StageOrder, 1, Len(stages))
    /\ Len(stages) >= 2 => parse_result = "ok"
    /\ Len(stages) >= 3 => compile_result = "ok"
    /\ Len(stages) >= 5 => render_result = "ok"
    /\ parse_result \in {"failed", "help"} => stages = <<"parse">>
    /\ compile_result = "failed" => stages = <<"parse", "compile">>
    /\ render_result = "failed" => stages = <<"parse", "compile", "bind", "render">>

C7_Witness ==
    /\ pc = "done"
    /\ exit_status = 0
    /\ stages = StageOrder

\* C8: when the scan processes a -v whose NAME is already registered, parsing
\* fails with the "value NAME was already specified" error and status 2, the
\* earlier value stays, and no compile or render happens in that run.
AlreadySpecified(n) ==
    [prefix |-> "error: ", what |-> Msg("value ... was already specified", n)]

AtDuplicateVal ==
    /\ InLoop
    /\ IsVal(argv[i])
    /\ i + 1 < argc
    /\ HasEq(argv[i + 1])
    /\ NameOf(argv[i + 1]) \in DOMAIN args.args

C8_DuplicateValFails ==
    /\ [][ (AtDuplicateVal /\ caught' = NoSignal) =>
              /\ parse_result' = "failed"
              /\ exit_status' = 2
              /\ stderr' = <<AlreadySpecified(NameOf(argv[i + 1]))>>
              /\ args'.args = args.args ]_vars
    /\ [](\A n \in DOMAIN args.args :
             AlreadySpecified(n) \in Range(stderr) =>
                 /\ stages = <<"parse">>
                 /\ compile_result = "none" /\ render_result = "none")

C8_Witness ==
    /\ exit_status = 2
    /\ AlreadySpecified(<<"a">>) \in Range(stderr)
    /\ args.args[<<"a">>] = make_data(<<"1">>)
    /\ argv[i + 1] = ValA2

\* The scan consumed every token without an error and without help.
AllTokensAccepted == Finished /\ ~(i < argc)

NoInputError ==
    [prefix |-> "error: ", what |-> Msg("No input specified (-h for help)", <<>>)]
NoDefaultError ==
    [prefix |-> "error: ", what |-> Msg("No default value specified", <<>>)]

ExtraParameter(val) ==
    [prefix |-> "error: ", what |-> Msg("Unknown extra parameter ", val)]
InputAlreadySpecified ==
    [prefix |-> "error: ",
     what |-> Msg("input was already specified, -i was unexpected", <<>>)]

AtSecondSource ==
    /\ InLoop
    /\ input_specified
    /\ IsInput(argv[i]) \/ ~IsFlag(argv[i])

C10_OneTemplateSource ==
    /\ [](parse_result = "ok" => Cardinality(Where(argv, IsSource)) <= 1)
    /\ [][ (AtSecondSource /\ caught' = NoSignal) =>
              /\ parse_result' = "failed"
              /\ exit_status' = 2
              /\ stderr' \in { <<ExtraParameter(argv[i])>>, <<InputAlreadySpecified>> } ]_vars
    /\ [][ input_specified => args'.input = args.input ]_vars

C10_Witness ==
    /\ exit_status = 2
    /\ stderr = <<InputAlreadySpecified>>
    /\ args.input = Tmpl
    /\ i + 1 < argc

\* C11: when signal_handler ran, the process' exit status is none of the
\* statuses 0, 1 and 2 of the pipeline's own outcomes.
C11_CrashStatusDistinct ==
    caught # NoSignal => exit_status \notin {0, 1, 2}

\* C12: a successful run with -o leaves the file at the -o path holding exactly
\* the rendered text (created, or truncated first) and nothing on standard
\* output; a successful run without -o has the rendered text on standard
\* output.
C12_OutputGoesToSink ==
    (Finished /\ parse_result = "ok" /\ exit_status = 0) =>
        IF output_specified
        THEN file = text /\ stdout = <<>>
        ELSE stdout = <<[kind |-> "text", body |-> text]>>

\* C13: when the scan processes a second -d/--default or a second
\* -o/--output, parsing fails there with the already-specified error and
\* status 2; the default value, once set, and the sink opened by the first -o
\* are never replaced.
DefaultAlreadySpecified ==
    [prefix |-> "error: ", what |-> Msg("default value already specified", <<>>)]
OutputAlreadySpecified ==
    [prefix |-> "error: ", what |-> Msg("output already specified", <<>>)]

C13_NoSecondDefaultOrOutput ==
    /\ [][ (InLoop /\ IsDefault(argv[i]) /\ default_specified /\ caught' = NoSignal) =>
              /\ parse_result' = "failed"
              /\ exit_status' = 2
              /\ stderr' = <<DefaultAlreadySpecified>> ]_vars
    /\ [][ (InLoop /\ IsOutput(argv[i]) /\ output_specified /\ caught' = NoSignal) =>
              /\ parse_result' = "failed"
              /\ exit_status' = 2
              /\ stderr' = <<OutputAlreadySpecified>> ]_vars
    /\ [][ default_specified => args'.default_value = args.default_value ]_vars
    /\ [][ output_specified =>
              /\ args'.out = "owned"
              /\ opened' = opened
              /\ ofs' = ofs ]_vars

C13_Witness ==
    /\ exit_status = 2
    /\ stderr = <<OutputAlreadySpecified>>
    /\ opened = 1
    /\ released = 1

\* The "expected argument" error of the value-taking flag val.
ExpectedArgumentFor(val) ==
    [prefix |-> "error: ",
     what |-> Msg(IF IsInput(val) THEN "expected argument for -i"
                  ELSE IF IsVal(val) THEN "expected argument for -v"
                  ELSE IF IsDefault(val) THEN "expected argument for -d"
                  ELSE "expected argument for -o", <<>>)]

\* parse_args failed on the last token, a value-taking flag.
FailedAtDanglingFlag ==
    /\ Finished
    /\ parse_result = "failed"
    /\ i >= 1 /\ i = Len(argv)
    /\ TakesValue(argv[i])

\* The last item of the vector is a value-taking flag without an argument.
EndsWithDanglingFlag(v) ==
    LET its == ItemsOf(v)
    IN  /\ its # <<>>
        /\ its[Len(its)].flag = <<>>
        /\ TakesValue(its[Len(its)].value)

\* C14 (as claimed): a value-taking flag that is the last token makes parsing
\* fail with the "expected argument" error; the scan never reads past the end.
C14_DanglingFlagExpectedArgument ==
    /\ i <= argc
    /\ FailedAtDanglingFlag => stderr = <<ExpectedArgumentFor(argv[i])>>

\* C14 (amended): a value-taking flag that is the last token makes parsing
\* fail with a usage error and status 2: the "expected argument" error, or,
\* for -i, -d or -o when the input, default or output was already given, the
\* already-specified error, which is tested first; parsing never succeeds on
\* such a vector and the scan never reads past the end.
C14_DanglingFlagFails ==
    /\ i <= argc
    /\ parse_result = "ok" => ~EndsWithDanglingFlag(argv)
    /\ FailedAtDanglingFlag =>
          /\ exit_status = 2
          /\ stderr = << IF IsInput(argv[i]) /\ input_specified
                            THEN InputAlreadySpecified
                         ELSE IF IsDefault(argv[i]) /\ default_specified
                            THEN DefaultAlreadySpecified
                         ELSE IF IsOutput(argv[i]) /\ output_specified
                            THEN OutputAlreadySpecified
                         ELSE ExpectedArgumentFor(argv[i]) >>

C14_Witness ==
    /\ FailedAtDanglingFlag
    /\ i > 1
    /\ stderr = <<ExpectedArgumentFor(OptDefault)>>

\* C15: for every -v argument s the scan processes: without '=' parsing fails
\* with the "Could not find value" error; otherwise, unless the name is
\* already registered, exactly one name n is registered, n holds no '=', and
\* n, "=" and the raw value registered for n concatenate to s.
CouldNotFindValue(s) ==
    [prefix |-> "error: ", what |-> Msg("Could not find value in ", s)]

C15_SplitOnFirstEq ==
    [][ (InLoop /\ IsVal(argv[i]) /\ i + 1 < argc /\ caught' = NoSignal) =>
          LET s == argv[i + 1]
          IN  IF ~HasEq(s)
              THEN /\ parse_result' = "failed"
                   /\ exit_status' = 2
                   /\ stderr' = <<CouldNotFindValue(s)>>
                   /\ args'.args = args.args
              ELSE \/ parse_result' = "failed" /\ args'.args = args.args
                   \/ /\ parse_result' = "none"
                      /\ \E n \in DOMAIN args'.args :
                           /\ DOMAIN args'.args = DOMAIN args.args \cup {n}
                           /\ n \notin DOMAIN args.args
                           /\ "=" \notin Range(n)
                           /\ args'.args[n].tag = "string"
                           /\ n \o <<"=">> \o args'.args[n].raw = s
                           /\ \A m \in DOMAIN args.args :
                                args'.args[m] = args.args[m] ]_vars

C15_Witness ==
    /\ pc = "parse"
    /\ <<"a">> \in DOMAIN args.args
    /\ args.args[<<"a">>].raw = <<"b", "=", "2">>

\* C16: after a successful parse there is exactly one sink: the owned file
\* stream if and only if -o was supplied, the shared standard output
\* otherwise; no run ever creates a second stream or holds the shared sink
\* next to an owned one.
C16_OneSink ==
    /\ opened <= 1
    /\ args.out = "owned" <=> (opened = 1 /\ output_specified)
    /\ args.out = "shared" => opened = 0
    /\ parse_result = "ok" =>
          /\ args.out \in {"owned", "shared"}
          /\ args.out = "owned" <=> Where(argv, IsOutputIt) # {}

C16_Witness ==
    /\ parse_result = "ok"
    /\ args.out = "owned"
    /\ Where(argv, IsOutputIt) # {}

\* C17: in every run that reaches compile, opts.globals holds exactly the keys
\* of args.args, each once, which are the names supplied with -v; the context
\* bound for render holds the default parsed from -d and exactly those names,
\* each with the value parsed for it.
C17_NamesAndContext ==
    /\ Len(stages) >= 2 =>
          /\ Range(globals) = DOMAIN args.args
          /\ Len(globals) = Cardinality(DOMAIN args.args)
          /\ DOMAIN args.args = SuppliedNames(argv)
          /\ compile_result = "ok" => constructor.globals = globals
    /\ Len(stages) >= 3 =>
          LET its == ItemsOf(argv)
          IN  /\ ctx.default = args.default_value
              /\ \E k \in 1..Len(its) :
                   /\ IsDefaultIt(its[k])
                   /\ ctx.default = make_data(its[k].value)
              /\ DOMAIN ctx.values = NamesIn(its)
              /\ \A n \in NamesIn(its) :
                   ctx.values[n] = make_data(ValueIn(its, n))

C17_Witness ==
    /\ Len(stages) >= 3
    /\ Len(globals) = 2
    /\ Cardinality(DOMAIN ctx.values) = 2

\* The positions at which the items of v begin.
ItemStarts(v) == LET its == ItemsOf(v) IN { its[k].at : k \in 1..Len(its) }

\* C18: the scan is only ever at the first token of an item, never at the
\* token that follows a value-taking flag; a step that accepts a value-taking
\* flag moves past its argument and uses that token as the flag's argument,
\* and help is only printed for -h/--help at the first token of an item.
C18_ArgumentNeverInterpreted ==
    /\ []((pc = "parse" /\ i < argc) => i \in ItemStarts(argv))
    /\ [](parse_result = "help" => (IsHelp(argv[i]) /\ i \in ItemStarts(argv)))
    /\ [][ (InLoop /\ TakesValue(argv[i]) /\ i + 1 < argc /\ pc' = "parse") =>
              /\ i' = i + 2
              /\ IsDefault(argv[i]) => args'.default_value = make_data(argv[i + 1])
              /\ IsVal(argv[i]) =>
                    \E n \in DOMAIN args'.args :
                        n \o <<"=">> \o args'.args[n].raw = argv[i + 1]
              /\ IsInput(argv[i]) => input_specified' /\ args'.input \in FileTexts
              /\ IsOutput(argv[i]) => opened' = opened + 1 ]_vars

C18_Witness ==
    /\ pc = "parse"
    /\ i = 3
    /\ argv[2] = OptH
    /\ args.default_value = make_data(OptH)
    /\ parse_result = "none"

\* C19: the file at the -o path is created or truncated when -o is processed,
\* while parsing is still under way; so in every run that ends with a
\* non-zero status after -o was processed the file exists and is empty.
C19_FileEmptyAfterFailure ==
    (Finished /\ exit_status # 0 /\ output_specified) =>
        /\ file_before \in {NoFile, OldText}
        /\ file = <<>>

\* The errors of the validation rules that item k of its violates, given the
\* items before it.
RuleErrors(its, k) ==
    LET it     == its[k]
        f      == IF it.flag = <<>> THEN it.value ELSE it.flag
        Before == 1..(k - 1)
    IN  (IF it.flag = <<>> /\ TakesValue(it.value)
         THEN {ExpectedArgumentFor(it.value)} ELSE {})
        \cup
        (IF IsBare(it) /\ \E j \in Before : IsSource(its[j])
         THEN {ExtraParameter(it.value)} ELSE {})
        \cup
        (IF IsInput(f) /\ \E j \in Before : IsSource(its[j])
         THEN {InputAlreadySpecified} ELSE {})
        \cup
        (IF IsDefault(f) /\ \E j \in Before : IsDefaultIt(its[j])
         THEN {DefaultAlreadySpecified} ELSE {})
        \cup
        (IF IsOutput(f) /\ \E j \in Before : IsOutputIt(its[j])
         THEN {OutputAlreadySpecified} ELSE {})
        \cup
        (IF IsValIt(it) /\ ~HasEq(it.value)
         THEN {CouldNotFindValue(it.value)} ELSE {})
        \cup
        (IF /\ IsValIt(it) /\ HasEq(it.value)
            /\ \E j \in Before : /\ IsValIt(its[j]) /\ HasEq(its[j].value)
                                  /\ NameOf(its[j].value) = NameOf(it.value)
         THEN {AlreadySpecified(NameOf(it.value))} ELSE {})

IsHelpIt(it) == it.flag = <<>> /\ IsHelp(it.value)

\* The items at which the scan must stop: a rule is violated or help is asked.
Stops(its) == { k \in 1..Len(its) : RuleErrors(its, k) # {} \/ IsHelpIt(its[k]) }

Leftmost(S) == CHOOSE k \in S : \A l \in S : k <= l

\* C20: a failed parse reports exactly one error. When some token violates a
\* rule, it is an error of the leftmost violating item, and the scan stopped
\* there; the required-field errors are reported only when no item violates a
\* rule, and then a missing input is reported rather than a missing default.
C20_LeftmostErrorFirst ==
    /\ parse_result = "ok" => Stops(ItemsOf(argv)) = {}
    /\ parse_result = "failed" =>
          LET its   == ItemsOf(argv)
              stops == Stops(its)
          IN  /\ Len(stderr) = 1
              /\ IF stops # {}
                 THEN /\ its[Leftmost(stops)].at = i
                      /\ stderr[1] \in RuleErrors(its, Leftmost(stops))
                 ELSE /\ ~(i < argc)
                      /\ stderr[1] =
                            IF \A k \in 1..Len(its) : ~IsSource(its[k])
                            THEN NoInputError ELSE NoDefaultError

C20_Witness ==
    /\ parse_result = "failed"
    /\ i < argc
    /\ Cardinality({ k \in 1..Len(ItemsOf(argv)) :
                       RuleErrors(ItemsOf(argv), k) # {} }) >= 2

====
